---------------------------- MODULE Spec2Model ----------------------------
(***************************************************************************)
(* Model of the building energy simulator:                                 *)
(*   src/simulator/models/{appliances,lighting,hvac}.py   load models      *)
(*   src/energy_dashboard/simulator/simulator.py          BuildingSimulator*)
(*   src/energy_dashboard/simulator/analytics.py          analytics        *)
(*                                                                         *)
(* Numbers.  Power values are floats in the source.  The model keeps them  *)
(* exact as integers counted in tenths of a kW: the literals 0.9, 1.1 of   *)
(* the noise factor and an alpha such as 0.1 are then the integers 9, 11   *)
(* and 1.  A rating p (kW) times a schedule multiplier m is p*m kW, that   *)
(* is p*m*Tenths tenths.                                                   *)
(***************************************************************************)
EXTENDS Integers, Sequences, FiniteSets, TLC

VARIABLES
    sim,        \* the BuildingSimulator object: fields timestep_hours,
                \* period_hours, timesteps, loads ("alive" = FALSE: none built)
    ctor,       \* what the last constructor call did: its arguments and
                \* whether it raised
    rng,        \* the process-wide numpy random source: seed and draws made
    seeded,     \* {s} when the last use of the random source was the call
                \* np.random.seed(s), {} once a value has been drawn since
    outcome,    \* what the last run() call gave its caller (kind "raised" or
                \* "table"), with what the call started from: the number of
                \* stored pairs, the random state, the pending seed, and the
                \* random state it left
    prev,       \* what the run() call before that gave its caller
                \* (both are the observer's record of the runs over the stored
                \* list as it is now: it starts afresh when a pair is added)
    load,       \* a load object under test (load-model specifications)
    profile,    \* what its last simulate() call returned (called = FALSE: no
                \* call yet)
    df,         \* a table under test (analytics specifications)
    peak,       \* what find_peak_load returned for it
    shares,     \* what subsystem_share returned, and for which timestep_hours
    solar_pct,  \* what solar_offset_pct returned, and for which timestep_hours
    warnings,   \* what flag_inefficiencies returned
    app         \* the last two run_simulation calls: arguments, loads built,
                \* random state at sim.run(), table returned

vars == <<sim, ctor, rng, seeded, outcome, prev, load, profile, df, peak,
          shares, solar_pct, warnings, app>>

---------------------------------------------------------------------------
(* Bounds of the model *)

\* most (load, label) pairs stored in one simulator
MaxLoads == 2
\* most draws taken from the random source after one seeding
MaxDraws == 6
\* longest schedule / temperature profile of a load under test
MaxLen == 2
\* most rows of a table under test
MaxRows == 2
\* most rows after the night rows in a table handed to flag_inefficiencies
MaxDayRows == 1

\* denominator of the fixed-point representation (0.9 = 9/Tenths)
Tenths == 10
\* np.random.uniform(0.9, 1.1, ...): the bounds of the noise factor, in tenths
UniformLow == 9
UniformHigh == 11

Seeds == {42, 7}

Labels == {"HVAC", "Solar", "Total"}

---------------------------------------------------------------------------
(* Sequence helpers *)

RECURSIVE SumSeq(_)
SumSeq(s) == IF s = <<>> THEN 0 ELSE Head(s) + SumSeq(Tail(s))

Abs(x) == IF x < 0 THEN -x ELSE x

Sign(x) == IF x < 0 THEN -1 ELSE IF x > 0 THEN 1 ELSE 0

\* all sequences over S of length lo..hi
SeqsOf(S, lo, hi) == UNION { [1..n -> S] : n \in lo..hi }

---------------------------------------------------------------------------
(* The shared random source (numpy's global RandomState) *)

\* variant: seeding that does not restart the stream
NpRandomSeedKeepsPosition(s) == [seed |-> s, pos |-> rng.pos]

\* np.random.seed(s): the stream restarts at its first value
NpRandomSeed(s) == [seed |-> s, pos |-> 0]

\* the k-th value (k = 0, 1, ...) of the stream of seed s, as a noise factor
\* in tenths: a fixed function of (s, k) with values in UniformLow..UniformHigh
Uniform(s, k) == UniformLow + ((s + k) % (UniformHigh - UniformLow + 1))

\* np.random.uniform(0.9, 1.1, size = n) from state r: n consecutive values
UniformArray(r, n) == [i \in 1..n |-> Uniform(r.seed, r.pos + i - 1)]

Advance(r, n) == [seed |-> r.seed, pos |-> r.pos + n]

---------------------------------------------------------------------------
(* Load models *)

ApplianceLoad(power_kw, schedule, randomize) ==
    [cls |-> "ApplianceLoad", power_kw |-> power_kw, schedule |-> schedule,
     randomize |-> randomize,
     temperature_profile |-> <<>>, setpoint |-> 0, max_power |-> 0, alpha |-> 0]

LightingLoad(power_kw, schedule, randomize) ==
    [cls |-> "LightingLoad", power_kw |-> power_kw, schedule |-> schedule,
     randomize |-> randomize,
     temperature_profile |-> <<>>, setpoint |-> 0, max_power |-> 0, alpha |-> 0]

\* alpha is given in tenths (alpha = 0.1 is 1)
HVACLoad(temperature_profile, setpoint, max_power, alpha) ==
    [cls |-> "HVACLoad", power_kw |-> 0, schedule |-> <<>>, randomize |-> FALSE,
     temperature_profile |-> temperature_profile, setpoint |-> setpoint,
     max_power |-> max_power, alpha |-> alpha]

IsScheduled(l) == l.cls \in {"ApplianceLoad", "LightingLoad"}

\* base = self.power_kw * self.schedule  (in tenths of a kW)
Base(l) == [i \in 1..Len(l.schedule) |-> l.power_kw * l.schedule[i] * Tenths]

\* variant: the randomize flag ignored
AlwaysRandomize(l) == TRUE

\* if self.randomize:
Randomizes(l) == l.randomize

\* variant: base + (variation - 1) in place of base * variation
ScheduledAdditiveNoise(l, r) ==
    IF Randomizes(l)
    THEN [i \in 1..Len(l.schedule) |->
            l.power_kw * l.schedule[i] * Tenths + (UniformArray(r, Len(l.schedule))[i] - Tenths)]
    ELSE Base(l)

\* ApplianceLoad.simulate / LightingLoad.simulate from random state r:
\* base * variation, the factor being a count of tenths
ScheduledSimulate(l, r) ==
    IF Randomizes(l)
    THEN [i \in 1..Len(l.schedule) |->
            l.power_kw * l.schedule[i] * UniformArray(r, Len(l.schedule))[i]]
    ELSE Base(l)

\* variant: a draw for the steps the load is on only
ScheduledDrawsOnSteps(l) ==
    IF Randomizes(l)
    THEN Cardinality({ i \in 1..Len(l.schedule) : l.schedule[i] # 0 })
    ELSE 0

\* draws a scheduled load's simulate() takes
ScheduledDraws(l) == IF Randomizes(l) THEN Len(l.schedule) ELSE 0

Min(a, b) == IF a < b THEN a ELSE b
Max(a, b) == IF a > b THEN a ELSE b

\* variant: a clip with no lower bound
ClipNoFloor(x, lo, hi) == Min(x, hi)

\* np.clip(x, lo, hi)
Clip(x, lo, hi) == Min(Max(x, lo), hi)

\* HVACLoad.simulate: delta = T - setpoint; duty = clip(alpha * delta, 0, 1);
\* max_power * duty.  alpha in tenths makes duty a count of tenths.
HVACSimulate(l) ==
    [i \in 1..Len(l.temperature_profile) |->
        l.max_power * Clip(l.alpha * (l.temperature_profile[i] - l.setpoint), 0, Tenths)]

\* variant: every load, thermal ones included, takes a draw per step
SimulateDrawsForEveryLoad(l, r) ==
    IF IsScheduled(l)
    THEN [out |-> ScheduledSimulate(l, r), rng |-> Advance(r, ScheduledDraws(l))]
    ELSE [out |-> HVACSimulate(l), rng |-> Advance(r, Len(l.temperature_profile))]

\* load.simulate() from random state r: the array returned and the state left
Simulate(l, r) ==
    IF IsScheduled(l)
    THEN [out |-> ScheduledSimulate(l, r), rng |-> Advance(r, ScheduledDraws(l))]
    ELSE [out |-> HVACSimulate(l), rng |-> r]

\* draws load.simulate() takes
Draws(l) == IF IsScheduled(l) THEN ScheduledDraws(l) ELSE 0

\* length of the array load.simulate() returns
OutLen(l) == IF IsScheduled(l) THEN Len(l.schedule) ELSE Len(l.temperature_profile)

---------------------------------------------------------------------------
(* BuildingSimulator *)

NoSim == [alive |-> FALSE, timestep_hours |-> 0, period_hours |-> 0,
          timesteps |-> 0, loads |-> <<>>]

NoOutcome == [kind |-> "none", columns |-> <<>>, cells |-> <<>>, nrows |-> 0,
              nloads |-> 0, seeded |-> {}, start |-> [seed |-> 0, pos |-> 0],
              stop |-> [seed |-> 0, pos |-> 0]]

NoCtor == [called |-> FALSE, timestep_hours |-> 0, period_hours |-> 0,
           raised |-> FALSE]

\* int(a / b) for b # 0: Python's int() cuts the quotient towards zero
IntDiv(a, b) == Sign(a) * Sign(b) * (Abs(a) \div Abs(b))

\* BuildingSimulator.__init__(timestep_hours = t, period_hours = p).
\* The only failure is the division by zero of period_hours / timestep_hours.
NewBuildingSimulator(t, p) ==
    /\ ~sim.alive
    /\ IF t = 0
       THEN /\ ctor' = [called |-> TRUE, timestep_hours |-> t, period_hours |-> p,
                        raised |-> TRUE]
            /\ sim' = sim
       ELSE /\ ctor' = [called |-> TRUE, timestep_hours |-> t, period_hours |-> p,
                        raised |-> FALSE]
            /\ sim' = [alive |-> TRUE, timestep_hours |-> t, period_hours |-> p,
                       timesteps |-> IntDiv(p, t), loads |-> <<>>]
    /\ UNCHANGED <<rng, seeded, outcome, prev, load, profile, df, peak, shares, solar_pct, warnings, app>>

\* variant: one pair per label, a later load taking the place of an earlier one
add_load_one_per_label(l, subsystem) ==
    /\ sim.alive
    /\ Len(sim.loads) < MaxLoads
    /\ sim' = [sim EXCEPT !.loads =
                 Append(SelectSeq(@, LAMBDA p : p[2] # subsystem), <<l, subsystem>>)]
    /\ outcome' = NoOutcome
    /\ prev' = NoOutcome
    /\ UNCHANGED <<ctor, rng, seeded, load, profile, df, peak, shares, solar_pct, warnings, app>>

\* BuildingSimulator.add_load(load, subsystem)
add_load(l, subsystem) ==
    /\ sim.alive
    /\ Len(sim.loads) < MaxLoads
    /\ sim' = [sim EXCEPT !.loads = Append(@, <<l, subsystem>>)]
    /\ outcome' = NoOutcome
    /\ prev' = NoOutcome
    /\ UNCHANGED <<ctor, rng, seeded, load, profile, df, peak, shares, solar_pct, warnings, app>>

\* np.random.seed(s)
seed(s) ==
    /\ rng' = NpRandomSeed(s)
    /\ seeded' = {s}
    /\ UNCHANGED <<sim, ctor, outcome, prev, load, profile, df, peak, shares, solar_pct, warnings, app>>

\* position of label c in the column list cols (0: absent)
IndexOf(cols, c) ==
    IF \E k \in 1..Len(cols) : cols[k] = c
    THEN CHOOSE k \in 1..Len(cols) : cols[k] = c
    ELSE 0

\* data[subsystem] += profile: numpy adds in place, stretching a one-element
\* profile over the accumulator; any other length difference raises
CanAddInPlace(acc, prof) == Len(prof) = Len(acc) \/ Len(prof) = 1

AddInPlace(acc, prof) ==
    [i \in 1..Len(acc) |-> acc[i] + (IF Len(prof) = 1 THEN prof[1] ELSE prof[i])]

\* the loop of run() over the stored pairs ls, from accumulator (cols, cells)
\* and random state r.  raised = TRUE: a += failed at some pair.
RECURSIVE Aggregate(_, _, _, _)
Aggregate(ls, cols, cells, r) ==
    IF ls = <<>>
    THEN [raised |-> FALSE, columns |-> cols, cells |-> cells, rng |-> r]
    ELSE LET l == Head(ls)[1]
             subsystem == Head(ls)[2]
             s == Simulate(l, r)
             k == IndexOf(cols, subsystem)
         IN  IF k = 0
             THEN Aggregate(Tail(ls), Append(cols, subsystem),
                            Append(cells, s.out), s.rng)
             ELSE IF CanAddInPlace(cells[k], s.out)
             THEN Aggregate(Tail(ls), cols,
                            [cells EXCEPT ![k] = AddInPlace(@, s.out)], s.rng)
             ELSE [raised |-> TRUE, columns |-> cols, cells |-> cells, rng |-> s.rng]

\* pd.DataFrame(data) needs all arrays of one length
SameLength(cells) == \A j, k \in 1..Len(cells) : Len(cells[j]) = Len(cells[k])

\* rows of pd.DataFrame(data): the arrays' common length, none for no array
RowCount(cells) == IF cells = <<>> THEN 0 ELSE Len(cells[1])

\* variant: a row sum that leaves negative (generation) cells out
RowSumsPositiveOnly(cells, n) ==
    [i \in 1..n |-> SumSeq([k \in 1..Len(cells) |-> Max(cells[k][i], 0)])]

\* df.sum(axis = 1): per row, the sum over every column of the frame
RowSums(cells, n) ==
    [i \in 1..n |-> SumSeq([k \in 1..Len(cells) |-> cells[k][i]])]

\* variant: the Total column put in front of the label columns
WithTotalFirst(cols, cells, total) ==
    LET keep == { k \in 1..Len(cols) : cols[k] # "Total" }
        at(j) == CHOOSE k \in keep : Cardinality({ m \in keep : m < k }) = j - 1
    IN  [columns |-> <<"Total">> \o [j \in 1..Cardinality(keep) |-> cols[at(j)]],
         cells |-> <<total>> \o [j \in 1..Cardinality(keep) |-> cells[at(j)]]]

\* variant: the Total column always added as a further column
WithTotalAppended(cols, cells, total) ==
    [columns |-> Append(cols, "Total"), cells |-> Append(cells, total)]

\* df['Total'] = ...: a new last column, or the column of that name replaced
WithTotal(cols, cells, total) ==
    IF IndexOf(cols, "Total") = 0
    THEN [columns |-> Append(cols, "Total"), cells |-> Append(cells, total)]
    ELSE [columns |-> cols, cells |-> [cells EXCEPT ![IndexOf(cols, "Total")] = total]]

\* variant: a failed in-place add answered with the table of what had been
\* accumulated until then
RunResultPartial(ls, r) ==
    LET a == Aggregate(ls, <<>>, <<>>, r)
    IN  IF ~SameLength(a.cells)
        THEN [kind |-> "raised", columns |-> <<>>, cells |-> <<>>, nrows |-> 0,
              rng |-> a.rng]
        ELSE LET n == RowCount(a.cells)
                 t == WithTotal(a.columns, a.cells, RowSums(a.cells, n))
             IN  [kind |-> "table", columns |-> t.columns, cells |-> t.cells,
                  nrows |-> n, rng |-> a.rng]

\* BuildingSimulator.run() on the pairs ls from random state r
RunResult(ls, r) ==
    LET a == Aggregate(ls, <<>>, <<>>, r)
    IN  IF a.raised \/ ~SameLength(a.cells)
        THEN [kind |-> "raised", columns |-> <<>>, cells |-> <<>>, nrows |-> 0,
              rng |-> a.rng]
        ELSE LET n == RowCount(a.cells)
                 t == WithTotal(a.columns, a.cells, RowSums(a.cells, n))
             IN  [kind |-> "table", columns |-> t.columns, cells |-> t.cells,
                  nrows |-> n, rng |-> a.rng]

\* variant: the accumulator of a label is the schedule array of the plain
\* scheduled load first stored under it
SharesOwnArrayWhenPlain(l) == IsScheduled(l) /\ ~Randomizes(l)

\* whether the array run() accumulates into is the load's own array:
\* simulate() returns a product (a new array) and data[subsystem] is set to
\* profile.astype(float), a copy
SharesOwnArray(l) == FALSE

\* the stored pairs as run() over ls from random state r leaves them: an
\* in-place add under a label writes into the accumulator of that label,
\* which came from the first pair stored under it
LoadsAfterRun(ls, r) ==
    LET a == Aggregate(ls, <<>>, <<>>, r)
    IN  [j \in 1..Len(ls) |->
           IF /\ SharesOwnArray(ls[j][1])
              /\ \A k \in 1..(j - 1) : ls[k][2] # ls[j][2]
              /\ \E k \in (j + 1)..Len(ls) : ls[k][2] = ls[j][2]
              /\ IndexOf(a.columns, ls[j][2]) # 0
           THEN << [ls[j][1] EXCEPT !.schedule = a.cells[IndexOf(a.columns, ls[j][2])]],
                   ls[j][2] >>
           ELSE ls[j]]

\* draws one run() over ls takes when no pair fails
RECURSIVE RunDraws(_)
RunDraws(ls) == IF ls = <<>> THEN 0 ELSE Draws(Head(ls)[1]) + RunDraws(Tail(ls))

run ==
    /\ sim.alive
    /\ rng.pos + RunDraws(sim.loads) <= MaxDraws
    /\ LET res == RunResult(sim.loads, rng)
       IN  /\ outcome' = [kind |-> res.kind, columns |-> res.columns,
                          cells |-> res.cells, nrows |-> res.nrows,
                          nloads |-> Len(sim.loads), seeded |-> seeded,
                          start |-> rng, stop |-> res.rng]
           /\ rng' = res.rng
           /\ seeded' = IF res.rng = rng THEN seeded ELSE {}
    /\ prev' = outcome
    /\ sim' = [sim EXCEPT !.loads = LoadsAfterRun(@, rng)]
    /\ UNCHANGED <<ctor, load, profile, df, peak, shares, solar_pct, warnings, app>>

---------------------------------------------------------------------------
(* The simulator specification *)

\* constructor arguments tried
TimestepHours == {1, 2}
PeriodHours == {3}

\* load objects handed to add_load
Catalog ==
    { ApplianceLoad(-2, <<0, 1, 1>>, FALSE),
      LightingLoad(1, <<1, 2, 0>>, TRUE),
      ApplianceLoad(3, <<1, 1>>, TRUE),
      LightingLoad(2, <<1>>, FALSE),
      HVACLoad(<<20, 29, 40>>, 24, 4, 1) }

NoLoad == ApplianceLoad(0, <<>>, FALSE)
NoProfile == [called |-> FALSE, out |-> <<>>]
NoTable == [columns |-> <<>>, cells |-> <<>>, nrows |-> 0]
NoPeak == [kind |-> "none", hour |-> 0, subsystem |-> "", value |-> 0]
NoShares == [kind |-> "none", timestep_hours |-> 0, entries |-> <<>>]
NoSolarPct == [kind |-> "none", timestep_hours |-> 0, num |-> 0, den |-> 1]
NoWarnings == [kind |-> "none", list |-> <<>>]
NoCall == [kind |-> "none", randomize |-> FALSE, timestep_hours |-> 0,
           period_hours |-> 0, loads |-> <<>>, start |-> [seed |-> 0, pos |-> 0],
           columns |-> <<>>, cells |-> <<>>, nrows |-> 0]
NoApp == [last |-> NoCall, before |-> NoCall]

Init ==
    /\ sim = NoSim
    /\ ctor = NoCtor
    /\ rng \in { [seed |-> s, pos |-> 0] : s \in Seeds }
    /\ seeded = {}
    /\ outcome = NoOutcome
    /\ prev = NoOutcome
    /\ load = NoLoad
    /\ profile = NoProfile
    /\ df = NoTable
    /\ peak = NoPeak
    /\ shares = NoShares
    /\ solar_pct = NoSolarPct
    /\ warnings = NoWarnings
    /\ app = NoApp

Construct == \E t \in TimestepHours, p \in PeriodHours : NewBuildingSimulator(t, p)

AddLoad == \E l \in Catalog, subsystem \in Labels : add_load(l, subsystem)

Seed == \E s \in Seeds : seed(s)

Next == Construct \/ AddLoad \/ Seed \/ run

Spec == Init /\ [][Next]_vars

---------------------------------------------------------------------------
(* The constructor specification: BuildingSimulator(t, p) over signed,    *)
(* zero and non-dividing arguments                                        *)

CtorTimestepHours == -3..4
CtorPeriodHours == -6..12

ConstructAny ==
    \E t \in CtorTimestepHours, p \in CtorPeriodHours : NewBuildingSimulator(t, p)

NextCtor == ConstructAny

SpecCtor == Init /\ [][NextCtor]_vars

---------------------------------------------------------------------------
(* The load-model specification: one load object, simulate() called on it *)

ScheduleValues == {-1, 0, 1, 2}
PowerRatings == {-2, 0, 3}
Temperatures == {14, 24, 29, 40}
Setpoints == {24}
MaxPowers == {-4, 0, 4}
Alphas == {-1, 0, 1, 5}

LoadsUnderTest ==
    { ApplianceLoad(p, sch, rnd) :
        p \in PowerRatings, sch \in SeqsOf(ScheduleValues, 1, MaxLen), rnd \in BOOLEAN }
    \cup
    { LightingLoad(p, sch, rnd) :
        p \in PowerRatings, sch \in SeqsOf(ScheduleValues, 1, MaxLen), rnd \in BOOLEAN }
    \cup
    { HVACLoad(tp, sp, mp, al) :
        tp \in SeqsOf(Temperatures, 1, MaxLen), sp \in Setpoints,
        mp \in MaxPowers, al \in Alphas }

InitLoad ==
    /\ sim = NoSim
    /\ ctor = NoCtor
    /\ rng \in { [seed |-> s, pos |-> 0] : s \in Seeds }
    /\ seeded = {}
    /\ outcome = NoOutcome
    /\ prev = NoOutcome
    /\ load \in LoadsUnderTest
    /\ profile = NoProfile
    /\ df = NoTable
    /\ peak = NoPeak
    /\ shares = NoShares
    /\ solar_pct = NoSolarPct
    /\ warnings = NoWarnings
    /\ app = NoApp

\* load.simulate()
simulate ==
    /\ rng.pos + Draws(load) <= MaxDraws
    /\ LET s == Simulate(load, rng)
       IN  /\ profile' = [called |-> TRUE, out |-> s.out]
           /\ rng' = s.rng
           /\ seeded' = IF s.rng = rng THEN seeded ELSE {}
    /\ UNCHANGED <<sim, ctor, outcome, prev, load, df, peak, shares, solar_pct, warnings, app>>

NextLoad == simulate

SpecLoad == InitLoad /\ [][NextLoad]_vars

---------------------------------------------------------------------------
(* Analytics: find_peak_load *)

\* variant: a pass that also moves on an equal value (the last largest)
RECURSIVE IdxMaxLastFrom(_, _, _)
IdxMaxLastFrom(s, i, best) ==
    IF i > Len(s) THEN best
    ELSE IdxMaxLastFrom(s, i + 1, IF s[i] >= s[best] THEN i ELSE best)

\* Series.idxmax(): position of the first largest value of a non-empty
\* sequence, found by one pass that moves on a strictly larger value only
RECURSIVE IdxMaxFrom(_, _, _)
IdxMaxFrom(s, i, best) ==
    IF i > Len(s) THEN best
    ELSE IdxMaxFrom(s, i + 1, IF s[i] > s[best] THEN i ELSE best)

IdxMaxLast(s) == IdxMaxLastFrom(s, 2, 1)
IdxMax(s) == IdxMaxFrom(s, 2, 1)

\* df[c]
Column(t, c) == t.cells[IndexOf(t.columns, c)]

\* df.loc[h].drop('Total'): the labels left, in column order
DropTotal(cols) == SelectSeq(cols, LAMBDA c : c # "Total")

\* variant: a zero-row table answered with a default tuple instead of an error
find_peak_load_default_on_empty(t) ==
    IF t.nrows = 0 \/ DropTotal(t.columns) = <<>>
    THEN [kind |-> "ok", hour |-> 0, subsystem |-> "", value |-> 0]
    ELSE LET h == IdxMax(Column(t, "Total"))
             rest == DropTotal(t.columns)
             row == [k \in 1..Len(rest) |-> Column(t, rest[k])[h]]
         IN  [kind |-> "ok", hour |-> h - 1, subsystem |-> rest[IdxMax(row)],
              value |-> Column(t, "Total")[h]]

\* find_peak_load(df) for a table with a Total column; the row index h of the
\* frame is the position h + 1 of the sequences
find_peak_load(t) ==
    IF t.nrows = 0
    THEN [kind |-> "raised", hour |-> 0, subsystem |-> "", value |-> 0]
    ELSE LET h == IdxMax(Column(t, "Total"))
             rest == DropTotal(t.columns)
             row == [k \in 1..Len(rest) |-> Column(t, rest[k])[h]]
         IN  IF rest = <<>>
             THEN [kind |-> "raised", hour |-> 0, subsystem |-> "", value |-> 0]
             ELSE [kind |-> "ok", hour |-> h - 1, subsystem |-> rest[IdxMax(row)],
                   value |-> Column(t, "Total")[h]]

\* tables handed to the analytics: label columns and a Total column in any
\* order, any cell values
PeakLabels == {"HVAC", "Solar", "Total"}
CellValues == {-1, 0, 2}

ColumnLists ==
    { c \in SeqsOf(PeakLabels, 1, Cardinality(PeakLabels)) :
        /\ \A j, k \in 1..Len(c) : j # k => c[j] # c[k]
        /\ \E k \in 1..Len(c) : c[k] = "Total" }

\* the tables of n rows with the column list c
TablesUnderTest(c, n) ==
    [columns : {c}, cells : [1..Len(c) -> [1..n -> CellValues]], nrows : {n}]

InitPeak ==
    /\ sim = NoSim
    /\ ctor = NoCtor
    /\ rng = [seed |-> 42, pos |-> 0]
    /\ seeded = {}
    /\ outcome = NoOutcome
    /\ prev = NoOutcome
    /\ load = NoLoad
    /\ profile = NoProfile
    /\ \E c \in ColumnLists, n \in 0..MaxRows : df \in TablesUnderTest(c, n)
    /\ peak = NoPeak
    /\ shares = NoShares
    /\ solar_pct = NoSolarPct
    /\ warnings = NoWarnings
    /\ app = NoApp

FindPeak ==
    /\ peak' = find_peak_load(df)
    /\ UNCHANGED <<sim, ctor, rng, seeded, outcome, prev, load, profile, df,
                   shares, solar_pct, warnings, app>>

NextPeak == FindPeak

SpecPeak == InitPeak /\ [][NextPeak]_vars

---------------------------------------------------------------------------
(* Analytics: subsystem_share and solar_offset_pct.  A percentage is kept *)
(* as the exact quotient num / den of two integers.                       *)

\* variant: the generation column counted as consumption
ConsumptionColsWithSolar(t) ==
    SelectSeq(t.columns, LAMBDA c : c # "Total" /\ SumSeq(Column(t, c)) > 0)

\* [col for col in df.columns
\*      if col not in ['Total', 'Solar'] and df[col].sum() > 0]
ConsumptionCols(t) ==
    SelectSeq(t.columns,
              LAMBDA c : c \notin {"Total", "Solar"} /\ SumSeq(Column(t, c)) > 0)

\* variant: the demand taken over every column of the frame
TotalDemandAllColumns(t, timestep_hours) ==
    SumSeq([k \in 1..Len(t.columns) |-> SumSeq(t.cells[k])]) * timestep_hours

\* df[consumption_cols].sum().sum() * timestep_hours
TotalDemand(t, timestep_hours) ==
    LET cc == ConsumptionCols(t)
    IN  SumSeq([k \in 1..Len(cc) |-> SumSeq(Column(t, cc[k]))]) * timestep_hours

\* subsystem_share(df, timestep_hours): a series with one entry per
\* consumption column, in column order, or the plain number 0 (kind "zero")
subsystem_share(t, timestep_hours) ==
    LET cc == ConsumptionCols(t)
        total_demand == TotalDemand(t, timestep_hours)
    IN  IF total_demand > 0
        THEN [kind |-> "series", timestep_hours |-> timestep_hours,
              entries |-> [k \in 1..Len(cc) |->
                             [label |-> cc[k],
                              num |-> SumSeq(Column(t, cc[k])) * timestep_hours * 100,
                              den |-> total_demand]]]
        ELSE [kind |-> "zero", timestep_hours |-> timestep_hours, entries |-> <<>>]

\* variant: the generation sum taken with the sign it is stored with
solar_offset_pct_signed(t, timestep_hours) ==
    IF IndexOf(t.columns, "Solar") = 0
    THEN [kind |-> "value", timestep_hours |-> timestep_hours, num |-> 0, den |-> 1]
    ELSE LET total_demand == TotalDemand(t, timestep_hours)
             solar_gen == SumSeq(Column(t, "Solar")) * timestep_hours
         IN  IF total_demand > 0
             THEN [kind |-> "value", timestep_hours |-> timestep_hours,
                   num |-> solar_gen * 100, den |-> total_demand]
             ELSE [kind |-> "value", timestep_hours |-> timestep_hours,
                   num |-> 0, den |-> 1]

\* variant: no guard on a zero consumption energy
solar_offset_pct_unguarded(t, timestep_hours) ==
    IF IndexOf(t.columns, "Solar") = 0
    THEN [kind |-> "value", timestep_hours |-> timestep_hours, num |-> 0, den |-> 1]
    ELSE [kind |-> "value", timestep_hours |-> timestep_hours,
          num |-> -SumSeq(Column(t, "Solar")) * timestep_hours * 100,
          den |-> Max(TotalDemand(t, timestep_hours), 1)]

\* solar_offset_pct(df, timestep_hours): the number num / den (0 is 0 / 1)
solar_offset_pct(t, timestep_hours) ==
    IF IndexOf(t.columns, "Solar") = 0
    THEN [kind |-> "value", timestep_hours |-> timestep_hours, num |-> 0, den |-> 1]
    ELSE LET total_demand == TotalDemand(t, timestep_hours)
             solar_gen == -SumSeq(Column(t, "Solar")) * timestep_hours
         IN  IF total_demand > 0
             THEN [kind |-> "value", timestep_hours |-> timestep_hours,
                   num |-> solar_gen * 100, den |-> total_demand]
             ELSE [kind |-> "value", timestep_hours |-> timestep_hours,
                   num |-> 0, den |-> 1]

\* label columns of the tables handed to the two functions, as run() would
\* have accumulated them
ShareLabelLists ==
    { <<>>, <<"HVAC">>, <<"Solar">>, <<"Solar", "HVAC">>,
      <<"HVAC", "Lighting", "Solar">> }

\* the tables of n rows with the label columns c and the Total column run()
\* appends
ShareTables(c, n) ==
    { LET w == WithTotal(c, cells, RowSums(cells, n))
      IN  [columns |-> w.columns, cells |-> w.cells, nrows |-> n] :
        cells \in [1..Len(c) -> [1..n -> CellValues]] }

\* the schedule [0]*6 + [1]*12 + [0]*6
DaySchedule == [i \in 1..24 |-> IF i \in 7..18 THEN 1 ELSE 0]

\* the table run() returns for a 4 kW load under HVAC and a -2 kW load under
\* Solar, both on DaySchedule and not randomized
SolarDayTable ==
    LET res == RunResult(<< <<ApplianceLoad(4, DaySchedule, FALSE), "HVAC">>,
                            <<ApplianceLoad(-2, DaySchedule, FALSE), "Solar">> >>,
                         NpRandomSeed(42))
    IN  [columns |-> res.columns, cells |-> res.cells, nrows |-> res.nrows]

\* timestep_hours arguments tried
ShareHours == {0, 1, 2}

InitShare ==
    /\ sim = NoSim
    /\ ctor = NoCtor
    /\ rng = [seed |-> 42, pos |-> 0]
    /\ seeded = {}
    /\ outcome = NoOutcome
    /\ prev = NoOutcome
    /\ load = NoLoad
    /\ profile = NoProfile
    /\ \/ \E c \in ShareLabelLists, n \in 0..MaxRows : df \in ShareTables(c, n)
       \/ df = SolarDayTable
    /\ peak = NoPeak
    /\ shares = NoShares
    /\ solar_pct = NoSolarPct
    /\ warnings = NoWarnings
    /\ app = NoApp

SubsystemShare ==
    /\ \E h \in ShareHours : shares' = subsystem_share(df, h)
    /\ UNCHANGED <<sim, ctor, rng, seeded, outcome, prev, load, profile, df,
                   peak, solar_pct, warnings, app>>

SolarOffsetPct ==
    /\ \E h \in ShareHours : solar_pct' = solar_offset_pct(df, h)
    /\ UNCHANGED <<sim, ctor, rng, seeded, outcome, prev, load, profile, df,
                   peak, shares, warnings, app>>

NextShare == SubsystemShare \/ SolarOffsetPct

SpecShare == InitShare /\ [][NextShare]_vars

---------------------------------------------------------------------------
(* Analytics: flag_inefficiencies *)

\* night_hours = range(0, 7): the row labels 0..6
NightHours == 0..6

\* variant: the whole column compared with a tenth of itself
NightSumWholeColumn(hvac) == SumSeq(hvac)

\* df.loc[night_hours, 'HVAC'].sum(): row label h is position h + 1
NightSum(hvac) == SumSeq([i \in 1..Cardinality(NightHours) |-> hvac[i]])

\* variant: night rows missing from the table left out of the night sum
flag_inefficiencies_rows_present(t) ==
    IF IndexOf(t.columns, "HVAC") = 0
    THEN [kind |-> "list", list |-> <<>>]
    ELSE LET hvac == Column(t, "HVAC")
             night == SumSeq([i \in 1..Len(hvac) |->
                                IF i - 1 \in NightHours THEN hvac[i] ELSE 0])
         IN  IF 10 * night > SumSeq(hvac)
             THEN [kind |-> "list",
                   list |-> <<"High night-time HVAC consumption detected.">>]
             ELSE [kind |-> "list", list |-> <<>>]

\* flag_inefficiencies(df): the list of warnings, or kind "raised" when
\* df.loc finds a night row label missing from the index (KeyError).
\* night_hvac > 0.1 * sum is compared as 10 * night_hvac > sum.
flag_inefficiencies(t) ==
    IF IndexOf(t.columns, "HVAC") = 0
    THEN [kind |-> "list", list |-> <<>>]
    ELSE IF \E h \in NightHours : h >= t.nrows
    THEN [kind |-> "raised", list |-> <<>>]
    ELSE IF 10 * NightSum(Column(t, "HVAC")) > SumSeq(Column(t, "HVAC"))
    THEN [kind |-> "list", list |-> <<"High night-time HVAC consumption detected.">>]
    ELSE [kind |-> "list", list |-> <<>>]

\* cells of the HVAC column: a tenth and nine tenths of a sum, zero, negative
FlagValues == {-1, 0, 1, 9}

\* the tables of n rows with an HVAC column and the Total column of run()
FlagTables(n) ==
    { LET w == WithTotal(<<"HVAC">>, <<hvac>>, RowSums(<<hvac>>, n))
      IN  [columns |-> w.columns, cells |-> w.cells, nrows |-> n] :
        hvac \in [1..n -> FlagValues] }

InitFlags ==
    /\ sim = NoSim
    /\ ctor = NoCtor
    /\ rng = [seed |-> 42, pos |-> 0]
    /\ seeded = {}
    /\ outcome = NoOutcome
    /\ prev = NoOutcome
    /\ load = NoLoad
    /\ profile = NoProfile
    /\ \/ \E n \in 0..(Cardinality(NightHours) + MaxDayRows) : df \in FlagTables(n)
       \/ \E c \in ShareLabelLists, n \in 0..MaxRows : df \in ShareTables(c, n)
    /\ peak = NoPeak
    /\ shares = NoShares
    /\ solar_pct = NoSolarPct
    /\ warnings = NoWarnings
    /\ app = NoApp

FlagInefficiencies ==
    /\ warnings' = flag_inefficiencies(df)
    /\ UNCHANGED <<sim, ctor, rng, seeded, outcome, prev, load, profile, df,
                   peak, shares, solar_pct, app>>

NextFlags == FlagInefficiencies

SpecFlags == InitFlags /\ [][NextFlags]_vars

---------------------------------------------------------------------------
(* A day of one-hour steps, end to end: build, add loads, run, analyse *)

\* outdoor temperature of the day: warm from step 9 to step 17
DayTemperatures == [i \in 1..24 |-> IF i \in 10..18 THEN 30 ELSE 22]

\* load objects of the day, none randomized
DayCatalog ==
    { ApplianceLoad(4, DaySchedule, FALSE),
      LightingLoad(4, DaySchedule, FALSE),
      ApplianceLoad(-2, DaySchedule, FALSE),
      HVACLoad(DayTemperatures, 24, 4, 1) }

DayLabels == {"HVAC", "Lighting", "Solar"}

\* df = sim.run(): the table the last run() returned
RunTable == [columns |-> outcome.columns, cells |-> outcome.cells,
             nrows |-> outcome.nrows]

\* get_analytics(df, timestep_hours) on the table of the last run: the four
\* analytics calls in order; a call that raises ends the sequence
get_analytics ==
    /\ sim.alive
    /\ outcome.kind = "table"
    /\ df' = RunTable
    /\ peak' = find_peak_load(RunTable)
    /\ IF find_peak_load(RunTable).kind = "raised"
       THEN /\ shares' = NoShares
            /\ solar_pct' = NoSolarPct
            /\ warnings' = NoWarnings
       ELSE /\ shares' = subsystem_share(RunTable, sim.timestep_hours)
            /\ solar_pct' = solar_offset_pct(RunTable, sim.timestep_hours)
            /\ warnings' = flag_inefficiencies(RunTable)
    /\ UNCHANGED <<sim, ctor, rng, seeded, outcome, prev, load, profile, app>>

ConstructDay == NewBuildingSimulator(1, 24)

AddDayLoad == \E l \in DayCatalog, subsystem \in DayLabels : add_load(l, subsystem)

NextDay == ConstructDay \/ AddDayLoad \/ run \/ get_analytics

SpecDay == Init /\ [][NextDay]_vars

---------------------------------------------------------------------------
(* run_simulation (the dashboard's scenario builder).  In its loads the    *)
(* product power_kw * schedule is in hundredths of a kW, and temperatures  *)
(* are whole degrees.  Every distribution of numpy takes one value of the  *)
(* stream per scalar drawn.                                                *)

\* [v] * n (the empty list for n <= 0)
Rep(v, n) == [i \in 1..n |-> v]

\* the lists F[0], ..., F[n - 1] joined in order
RECURSIVE Concat(_, _)
Concat(F, n) == IF n = 0 THEN <<>> ELSE Concat(F, n - 1) \o F[n - 1]

\* np.random.randint(lo, hi) from random state r
RandInt(r, lo, hi) == lo + ((r.seed + r.pos) % (hi - lo))

\* np.random.uniform(lo, hi) from random state r: lo, the middle or hi
UniformBetween(r, lo, hi) ==
    lo + (((r.seed + r.pos) % (UniformHigh - UniformLow + 1)) * (hi - lo)) \div 2

\* np.random.choice(xs, size = k, replace = False) from random state r: k
\* elements of xs, one value of the stream each
RECURSIVE Choice(_, _, _)
Choice(xs, k, r) ==
    IF k = 0 THEN [val |-> {}, rng |-> r]
    ELSE LET at == ((r.seed + r.pos) % Len(xs)) + 1
             others == [i \in 1..(Len(xs) - 1) |-> IF i < at THEN xs[i] ELSE xs[i + 1]]
             more == Choice(others, k - 1, Advance(r, 1))
         IN  [val |-> {xs[at]} \cup more.val, rng |-> more.rng]

\* 10 * sin((hour - 15) / 24 * 2 * pi) for hour = 0..23, to the nearest integer
SinTenths ==
    <<7, 5, 3, 0, -3, -5, -7, -9, -10, -10, -10, -9,
      -7, -5, -3, 0, 3, 5, 7, 9, 10, 10, 10, 9>>

\* temp_profile: per day two draws (day_min, day_max), then the sine curve
TempProfile(r, days, steps_per_day, timestep_hours) ==
    Concat([d \in 0..(days - 1) |->
              LET day_min == 22 + UniformBetween(Advance(r, 2 * d), -1, 1)
                  day_max == 34 + UniformBetween(Advance(r, 2 * d + 1), -2, 2)
              IN  [k \in 1..steps_per_day |->
                     day_min + ((day_max - day_min)
                                  * (Tenths + SinTenths[(k - 1) * timestep_hours + 1]))
                               \div (2 * Tenths)]],
           days)

\* one day of repeat_with_variation from random state r: the day's list and
\* the state left
VariationDay(base, min_on, max_on, r) ==
    LET idx(v) == SelectSeq([i \in 1..Len(base) |-> i], LAMBDA i : base[i] = v)
        on_indices == idx(1)
        off_indices == idx(0)
        off == IF min_on > 0 /\ Len(on_indices) > min_on
               THEN Choice(on_indices, RandInt(r, 0, Len(on_indices) - min_on + 1),
                           Advance(r, 1))
               ELSE [val |-> {}, rng |-> r]
        on == IF max_on # 0 /\ Len(off_indices) > 0
              THEN Choice(off_indices, RandInt(off.rng, 0, max_on + 1),
                          Advance(off.rng, 1))
              ELSE [val |-> {}, rng |-> off.rng]
    IN  [val |-> [i \in 1..Len(base) |->
                    IF i \in on.val THEN 1 ELSE IF i \in off.val THEN 0 ELSE base[i]],
         rng |-> on.rng]

\* repeat_with_variation(base, days, steps_per_day, min_on, max_on) from r
RECURSIVE repeat_with_variation(_, _, _, _, _)
repeat_with_variation(base, days, min_on, max_on, r) ==
    IF days = 0 THEN [val |-> <<>>, rng |-> r]
    ELSE LET day == VariationDay(base, min_on, max_on, r)
             rest == repeat_with_variation(base, days - 1, min_on, max_on, day.rng)
         IN  [val |-> day.val \o rest.val, rng |-> rest.rng]

\* the body of run_simulation from np.random.seed(42) to the last add_load:
\* the stored pairs and the random state sim.run() starts from
BuiltLoads(randomize, timestep_hours, period_hours) ==
    LET t == timestep_hours
        days == period_hours \div 24
        steps_per_day == 24 \div t
        total_steps == period_hours \div t
        r0 == NpRandomSeed(42)
        temp_profile == TempProfile(r0, days, steps_per_day, t)
        r1 == Advance(r0, 2 * days)
        weekend(d) == d \in {5, 6}
        light_schedule ==
            Concat([d \in 0..(days - 1) |->
                      LET light_on == (IF weekend(d) THEN 8 ELSE 6) \div t
                          light_off1 == 16 \div t
                      IN  Rep(0, light_off1) \o Rep(1, light_on)
                            \o Rep(0, steps_per_day - light_off1 - light_on)], days)
        once(d, hour) ==
            Rep(0, hour \div t) \o Rep(1, 1 \div t)
              \o Rep(0, steps_per_day - hour \div t - 1 \div t)
        washer_schedule ==
            Concat([d \in 0..(days - 1) |->
                      IF weekend(d) THEN once(d, 8) ELSE Rep(0, steps_per_day)], days)
        dryer_schedule ==
            Concat([d \in 0..(days - 1) |->
                      IF weekend(d) THEN once(d, 12) ELSE Rep(0, steps_per_day)], days)
        dw_schedule ==
            Concat([d \in 0..(days - 1) |->
                      LET dw_on1 == Rep(0, 7 \div t) \o Rep(1, 1 \div t)
                          dw_on2 == Rep(0, 10 \div t) \o Rep(1, 1 \div t)
                      IN  dw_on1 \o dw_on2
                            \o Rep(0, steps_per_day - Len(dw_on1) - Len(dw_on2))], days)
        ev == IF days >= 3
              THEN Choice([i \in 1..days |-> i - 1], 3, r1)
              ELSE [val |-> 0..(days - 1), rng |-> r1]
        ev_schedule ==
            Concat([d \in 0..(days - 1) |->
                      IF d \in ev.val
                      THEN Rep(1, 2 \div t) \o Rep(0, steps_per_day - 2 \div t)
                      ELSE Rep(0, steps_per_day)], days)
        r2 == ev.rng
        oven_schedule ==
            Concat([d \in 0..(days - 1) |-> once(d, RandInt(Advance(r2, d), 17, 20))], days)
        r3 == Advance(r2, days)
        mw_schedule ==
            Concat([d \in 0..(days - 1) |-> once(d, RandInt(Advance(r3, d), 7, 10))], days)
        r4 == Advance(r3, days)
        tv_base == Rep(0, 17 \div t) \o Rep(1, 5 \div t)
                     \o Rep(0, steps_per_day - 17 \div t - 5 \div t)
        tv == repeat_with_variation(tv_base, days, 3 \div t, 2 \div t, r4)
        comp_base == Rep(0, 8 \div t) \o Rep(1, 8 \div t)
                       \o Rep(0, steps_per_day - 8 \div t - 8 \div t)
        comp == repeat_with_variation(comp_base, days, 6 \div t, 2 \div t, tv.rng)
        r5 == comp.rng
        solar_powers == [d \in 0..(days - 1) |-> UniformBetween(Advance(r5, d), 200, 350)]
        solar_power_profile ==
            Concat([d \in 0..(days - 1) |->
                      Rep(0, 7 \div t) \o Rep(-solar_powers[d], 10 \div t)
                        \o Rep(0, steps_per_day - 7 \div t - 10 \div t)], days)
        r6 == Advance(r5, days)
    IN  [loads |->
           << <<HVACLoad(temp_profile, 24, 400, 1), "HVAC">>,
              <<LightingLoad(70, light_schedule, randomize), "Lighting">>,
              <<ApplianceLoad(50, washer_schedule, randomize), "Appliances">>,
              <<ApplianceLoad(400, dryer_schedule, randomize), "Appliances">>,
              <<ApplianceLoad(120, dw_schedule, randomize), "Kitchen">>,
              <<ApplianceLoad(700, ev_schedule, randomize), "Appliances">>,
              <<ApplianceLoad(250, oven_schedule, randomize), "Kitchen">>,
              <<ApplianceLoad(120, mw_schedule, randomize), "Kitchen">>,
              <<ApplianceLoad(18, Rep(1, total_steps), randomize), "Appliances">>,
              <<ApplianceLoad(15, tv.val, randomize), "Appliances">>,
              <<ApplianceLoad(10, comp.val, randomize), "Appliances">>,
              <<ApplianceLoad(-1, solar_power_profile, randomize), "Solar">> >>,
         rng |-> r6]

\* arguments of run_simulation tried
AppTimestepHours == {1, 2, 3}
AppPeriodHours == {24, 96}

\* run_simulation(randomize, timestep_hours, period_hours): seed, build the
\* loads, df = sim.run(); the simulator is local to the call
run_simulation(randomize, timestep_hours, period_hours) ==
    LET b == BuiltLoads(randomize, timestep_hours, period_hours)
        res == RunResult(b.loads, b.rng)
    IN  /\ app' = [last |-> [kind |-> res.kind, randomize |-> randomize,
                             timestep_hours |-> timestep_hours,
                             period_hours |-> period_hours, loads |-> b.loads,
                             start |-> b.rng, columns |-> res.columns,
                             cells |-> res.cells, nrows |-> res.nrows],
                   before |-> app.last]
        /\ rng' = res.rng
        /\ seeded' = {}
        /\ UNCHANGED <<sim, ctor, outcome, prev, load, profile, df, peak, shares,
                       solar_pct, warnings>>

RunSimulation ==
    \E randomize \in BOOLEAN, t \in AppTimestepHours, p \in AppPeriodHours :
        run_simulation(randomize, t, p)

NextApp == RunSimulation

SpecApp == Init /\ [][NextApp]_vars

---------------------------------------------------------------------------
(* Properties *)

\* the pairs the last run() worked on (the list only grows)
RanLoads == SubSeq(sim.loads, 1, outcome.nloads)

\* the array the j-th pair's load returned during a run over ls started from
\* random state r: the loads before it have taken their draws
OutputOf(ls, r, j) ==
    Simulate(ls[j][1], Advance(r, RunDraws(SubSeq(ls, 1, j - 1)))).out

\* sum, over the first j pairs of ls stored under label c, of the output at row i
RECURSIVE LabelSum(_, _, _, _, _)
LabelSum(ls, r, c, i, j) ==
    IF j = 0 THEN 0
    ELSE (IF ls[j][2] = c THEN OutputOf(ls, r, j)[i] ELSE 0) + LabelSum(ls, r, c, i, j - 1)

\* sum at row i of the table's columns other than Total
LabelColumnsSum(o, i) ==
    SumSeq([k \in 1..Len(o.columns) |->
               IF o.columns[k] = "Total" THEN 0 ELSE o.cells[k][i]])

\* what run() accumulated at row i under the label "Total" (0: no such pair)
AccumulatedAsTotal(ls, r, i) ==
    LET a == Aggregate(ls, <<>>, <<>>, r)
    IN  IF IndexOf(a.columns, "Total") = 0 THEN 0
        ELSE a.cells[IndexOf(a.columns, "Total")][i]

TableOf(o) == <<o.kind, o.columns, o.cells, o.nrows>>

\* C1: run() raises whenever some stored load's simulate() output has a length
\* different from self.timesteps.
C1_RunFailsOnLengthMismatch ==
    (/\ outcome.kind # "none"
     /\ \E j \in 1..outcome.nloads : OutLen(sim.loads[j][1]) # sim.timesteps)
    => outcome.kind = "raised"

\* C2: in a returned table, the column of a label shared by two or more loads
\* holds, at every row, the sum of the outputs of all loads of that label at
\* that row (so each of them has an output at that row).
C2_SharedLabelColumnIsSum ==
    outcome.kind = "table" =>
        \A c \in Labels \ {"Total"} :
            Cardinality({j \in 1..outcome.nloads : sim.loads[j][2] = c}) >= 2 =>
                \A i \in 1..outcome.nrows :
                    /\ \A j \in 1..outcome.nloads :
                          sim.loads[j][2] = c =>
                              i <= Len(OutputOf(RanLoads, outcome.start, j))
                    /\ Column(outcome, c)[i] =
                          LabelSum(RanLoads, outcome.start, c, i, outcome.nloads)

\* C3 as stated: in a returned table the Total cell of each row is the sum of
\* the row's cells in the label columns.
C3_TotalIsSumOfLabelColumns ==
    outcome.kind = "table" =>
        \A i \in 1..outcome.nrows :
            Column(outcome, "Total")[i] = LabelColumnsSum(outcome, i)

\* C3 amended: the Total cell of each row is the sum of the row's cells in the
\* label columns, negative ones included, plus what was accumulated under the
\* label "Total" itself, which has no column of its own in the table.
C3_TotalIsSumOfAccumulated ==
    outcome.kind = "table" =>
        \A i \in 1..outcome.nrows :
            Column(outcome, "Total")[i] =
                LabelColumnsSum(outcome, i)
                + AccumulatedAsTotal(RanLoads, outcome.start, i)

C3_Witness ==
    /\ outcome.kind = "table"
    /\ outcome.nrows >= 2
    /\ Len(outcome.columns) = 3
    /\ \A j \in 1..outcome.nloads : sim.loads[j][2] # "Total"
    /\ \E k \in 1..Len(outcome.columns), i \in 1..outcome.nrows :
          outcome.cells[k][i] < 0
    /\ \E i \in 1..outcome.nrows : Column(outcome, "Total")[i] # 0

\* C4: run() with no load stored returns a table whose only column is Total,
\* with self.timesteps rows, all 0.
C4_EmptyRunGivesZeroTotal ==
    (outcome.kind # "none" /\ outcome.nloads = 0) =>
        /\ outcome.kind = "table"
        /\ outcome.columns = <<"Total">>
        /\ outcome.nrows = sim.timesteps
        /\ \A i \in 1..outcome.nrows : Column(outcome, "Total")[i] = 0

\* C5: the constructor raises, and builds no simulator, when timestep_hours <= 0,
\* when period_hours <= 0 or when period_hours is no multiple of timestep_hours;
\* the timestep count of a built simulator is the exact quotient.
C5_ConstructorRejectsBadConfig ==
    ctor.called =>
        /\ (\/ ctor.timestep_hours <= 0
            \/ ctor.period_hours <= 0
            \/ ctor.period_hours % ctor.timestep_hours # 0)
           => (ctor.raised /\ ~sim.alive)
        /\ sim.alive => sim.timesteps * sim.timestep_hours = sim.period_hours

C7_NoNoiseWithoutRandomize ==
    (profile.called /\ IsScheduled(load) /\ ~load.randomize) =>
        /\ Len(profile.out) = Len(load.schedule)
        /\ \A i \in 1..Len(load.schedule) :
              profile.out[i] = load.power_kw * load.schedule[i] * Tenths

C7_Witness ==
    /\ profile.called
    /\ load.cls = "LightingLoad"
    /\ ~load.randomize
    /\ load.power_kw < 0
    /\ Len(load.schedule) = 2
    /\ load.schedule[1] = 2
    /\ load.schedule[2] = -1
    /\ profile.out = <<-40, 20>>

\* C8: a scheduled load with randomize = true returns, at every step i,
\* power_kw * schedule[i] times a factor in [0.9, 1.1]: the magnitude is within
\* 0.9 and 1.1 times |power_kw * schedule[i]|, the sign is that of
\* power_kw * schedule[i], and a step whose schedule value is 0 gives exactly 0.
C8_NoiseFactorInRange ==
    (profile.called /\ IsScheduled(load) /\ load.randomize) =>
        /\ Len(profile.out) = Len(load.schedule)
        /\ \A i \in 1..Len(load.schedule) :
              LET b == load.power_kw * load.schedule[i]
              IN  /\ \E f \in UniformLow..UniformHigh : profile.out[i] = b * f
                  /\ UniformLow * Abs(b) <= Abs(profile.out[i])
                  /\ Abs(profile.out[i]) <= UniformHigh * Abs(b)
                  /\ Sign(profile.out[i]) = Sign(b)
                  /\ load.schedule[i] = 0 => profile.out[i] = 0

C8_Witness ==
    /\ profile.called
    /\ IsScheduled(load)
    /\ load.randomize
    /\ load.power_kw = -2
    /\ load.schedule = <<0, 2>>
    /\ profile.out = <<0, -44>>

\* C9: a thermal load returns, at every step i,
\* max_power * clamp(alpha * (input[i] - setpoint), 0, 1); for non-negative
\* alpha that is 0 whenever input[i] <= setpoint; it is max_power whenever
\* alpha * (input[i] - setpoint) >= 1; and for non-negative max_power it lies
\* in 0..max_power.
C9_ThermalDutyCycle ==
    (profile.called /\ load.cls = "HVACLoad") =>
        /\ Len(profile.out) = Len(load.temperature_profile)
        /\ \A i \in 1..Len(load.temperature_profile) :
              LET x == load.alpha * (load.temperature_profile[i] - load.setpoint)
                  duty == IF x <= 0 THEN 0 ELSE IF x >= Tenths THEN Tenths ELSE x
              IN  /\ profile.out[i] = load.max_power * duty
                  /\ (load.alpha >= 0 /\ load.temperature_profile[i] <= load.setpoint)
                        => profile.out[i] = 0
                  /\ x >= Tenths => profile.out[i] = load.max_power * Tenths
                  /\ (load.max_power >= 0 /\ load.alpha >= 0)
                        => (0 <= profile.out[i] /\ profile.out[i] <= load.max_power * Tenths)

C9_Witness ==
    /\ profile.called
    /\ load.cls = "HVACLoad"
    /\ load.max_power = 4
    /\ load.alpha = 1
    /\ load.temperature_profile = <<14, 29>>
    /\ profile.out = <<0, 20>>

\* C10: for a table with at least one row and at least one column besides
\* Total, find_peak_load returns the smallest row index at which Total is
\* largest, the first column in column order, Total left out, whose value in
\* that row is largest, and the Total value of that row.
C10_PeakIsFirstMaximum ==
    (/\ peak.kind # "none"
     /\ df.nrows >= 1
     /\ \E k \in 1..Len(df.columns) : df.columns[k] # "Total")
    =>
    /\ peak.kind = "ok"
    /\ peak.hour + 1 \in 1..df.nrows
    /\ LET total == Column(df, "Total")
           h == peak.hour + 1
       IN  /\ \A i \in 1..df.nrows : total[i] <= total[h]
           /\ \A i \in 1..(h - 1) : total[i] < total[h]
           /\ peak.value = total[h]
           /\ \E k \in 1..Len(df.columns) :
                 /\ df.columns[k] = peak.subsystem
                 /\ df.columns[k] # "Total"
                 /\ \A j \in 1..Len(df.columns) :
                       df.columns[j] # "Total" =>
                           /\ df.cells[j][h] <= df.cells[k][h]
                           /\ j < k => df.cells[j][h] < df.cells[k][h]

C10_Witness ==
    /\ peak.kind = "ok"
    /\ df.columns = <<"Solar", "Total", "HVAC">>
    /\ df.nrows = 2
    /\ Column(df, "Total") = <<2, 2>>
    /\ Column(df, "Solar") = <<0, 2>>
    /\ Column(df, "HVAC") = <<0, -1>>
    /\ peak.hour = 0
    /\ peak.subsystem = "Solar"
    /\ peak.value = 2

\* C11: find_peak_load fails (it returns no tuple) whenever the table it is
\* given has zero rows.
C11_PeakFailsOnEmptyTable ==
    (peak.kind # "none" /\ df.nrows = 0) => peak.kind = "raised"

C11_Witness ==
    /\ peak.kind = "raised"
    /\ df.nrows = 0
    /\ Len(df.columns) = 3

\* sum of the values num / den of a series' entries, as one quotient
RECURSIVE EntriesSum(_)
EntriesSum(es) ==
    IF es = <<>> THEN [num |-> 0, den |-> 1]
    ELSE LET rest == EntriesSum(Tail(es))
         IN  [num |-> Head(es).num * rest.den + rest.num * Head(es).den,
              den |-> Head(es).den * rest.den]

\* labels of the table's columns that count as consumption: neither Total nor
\* Solar, and a strictly positive column sum
Qualifying(t) ==
    { t.columns[k] : k \in { j \in 1..Len(t.columns) :
                               /\ t.columns[j] \notin {"Total", "Solar"}
                               /\ SumSeq(t.cells[j]) > 0 } }

\* sum of the table's cells in the columns of the label set L
SumOver(t, L) ==
    SumSeq([k \in 1..Len(t.columns) |->
               IF t.columns[k] \in L THEN SumSeq(t.cells[k]) ELSE 0])

\* C12: whenever at least one column other than Total and Solar has a
\* strictly positive sum and timestep_hours > 0, the values subsystem_share
\* returns sum to 100.
C12_SharesSumTo100 ==
    (shares.kind # "none" /\ shares.timestep_hours > 0 /\ Qualifying(df) # {})
        => /\ shares.kind = "series"
           /\ \A k \in 1..Len(shares.entries) : shares.entries[k].den > 0
           /\ EntriesSum(shares.entries).num = 100 * EntriesSum(shares.entries).den

C12_Witness ==
    /\ shares.kind = "series"
    /\ shares.timestep_hours = 2
    /\ Len(shares.entries) = 2
    /\ shares.entries[1].num # shares.entries[2].num
    /\ SumSeq(Column(df, "Solar")) > 0

\* C13: subsystem_share returns an entry for exactly the columns that are
\* neither Total nor Solar and have a strictly positive sum, each entry being
\* 100 * (column sum * timestep_hours) / (sum over those columns of column
\* sum * timestep_hours); a column of zero or negative sum, and the Solar
\* column whatever its sum, gets no entry.  (timestep_hours > 0: the quotient
\* has no value otherwise.)
C13_ShareEntries ==
    (shares.kind # "none" /\ shares.timestep_hours > 0)
        => LET es == shares.entries
               h == shares.timestep_hours
               energy == SumOver(df, Qualifying(df)) * h
           IN  /\ { es[k].label : k \in 1..Len(es) } = Qualifying(df)
               /\ \A j, k \in 1..Len(es) : es[j].label = es[k].label => j = k
               /\ \A k \in 1..Len(es) :
                     /\ es[k].den > 0
                     /\ es[k].num * energy
                          = 100 * SumSeq(Column(df, es[k].label)) * h * es[k].den

C13_Witness ==
    /\ shares.kind = "series"
    /\ shares.timestep_hours = 2
    /\ Len(shares.entries) = 1
    /\ shares.entries[1].label = "Lighting"
    /\ SumSeq(Column(df, "Solar")) > 0
    /\ SumSeq(Column(df, "HVAC")) < 0

\* C14: when no column qualifies as consumption or the summed consumption
\* energy is zero (a zero-row table included), subsystem_share does not fail
\* and returns an empty mapping: a result of the kind it returns otherwise,
\* without entries.
C14_EmptyShareIsEmptyMapping ==
    (/\ shares.kind # "none"
     /\ \/ Qualifying(df) = {}
        \/ SumOver(df, Qualifying(df)) * shares.timestep_hours = 0)
        => (shares.kind = "series" /\ shares.entries = <<>>)

\* greatest common divisor of two naturals
RECURSIVE GCD(_, _)
GCD(a, b) == IF b = 0 THEN a ELSE GCD(b, a % b)

\* the quotient n / d (d # 0) in lowest terms, with a positive denominator
Reduced(n, d) ==
    LET g == GCD(Abs(n), Abs(d))
    IN  [num |-> Sign(d) * (n \div g), den |-> Abs(d) \div g]

\* C15: solar_offset_pct returns exactly 0 whenever the table has no Solar
\* column, and exactly 0 whenever the consumption energy (the sum over the
\* non-Total, non-Solar columns of positive sum, times timestep_hours) is 0,
\* whatever the Solar column holds.
C15_SolarOffsetZero ==
    (/\ solar_pct.kind # "none"
     /\ \/ \A k \in 1..Len(df.columns) : df.columns[k] # "Solar"
        \/ SumOver(df, Qualifying(df)) * solar_pct.timestep_hours = 0)
        => (solar_pct.num = 0 /\ solar_pct.den # 0)

C15_Witness ==
    /\ solar_pct.kind = "value"
    /\ solar_pct.timestep_hours = 1
    /\ solar_pct.num = 0
    /\ IndexOf(df.columns, "Solar") # 0
    /\ SumSeq(Column(df, "Solar")) < 0
    /\ SumOver(df, Qualifying(df)) = 0

\* C16: with a Solar column and a positive consumption energy,
\* solar_offset_pct returns 100 * (-(sum of the Solar column) *
\* timestep_hours) / consumption energy, the consumption energy being the
\* denominator subsystem_share uses; a 4 kW load under HVAC and a -2 kW load
\* under Solar, both not randomized and on for steps 6..17 of 24 one-hour
\* steps, give 50.
C16_SolarOffsetValue ==
    (/\ solar_pct.kind # "none"
     /\ IndexOf(df.columns, "Solar") # 0
     /\ SumOver(df, Qualifying(df)) * solar_pct.timestep_hours > 0)
        => LET h == solar_pct.timestep_hours
               energy == SumOver(df, Qualifying(df)) * h
               solar == SumSeq(Column(df, "Solar"))
           IN  /\ solar_pct.den > 0
               /\ Reduced(solar_pct.num, solar_pct.den)
                    = Reduced(100 * (-solar * h), energy)
               /\ (shares.kind = "series" /\ shares.timestep_hours = h)
                     => \A k \in 1..Len(shares.entries) :
                           LET e == shares.entries[k]
                           IN  solar # 0
                                 => Reduced(e.num, e.den * SumSeq(Column(df, e.label)))
                                      = Reduced(solar_pct.num, solar_pct.den * (-solar))
               /\ (df = SolarDayTable /\ h = 1)
                     => solar_pct.num = 50 * solar_pct.den

C16_Witness ==
    /\ df = SolarDayTable
    /\ df.nrows = 24
    /\ solar_pct.kind = "value"
    /\ solar_pct.timestep_hours = 1
    /\ solar_pct.num = 50 * solar_pct.den
    /\ shares.kind = "series"

\* the table has an HVAC column whose sum over the rows 0..6 it has is
\* strictly greater than 10% of its sum over all rows
NightShareHigh(t) ==
    /\ IndexOf(t.columns, "HVAC") # 0
    /\ LET hvac == Column(t, "HVAC")
           night == SumSeq([i \in 1..Len(hvac) |-> IF i - 1 \in 0..6 THEN hvac[i] ELSE 0])
       IN  10 * night > SumSeq(hvac)

\* C17 as stated: flag_inefficiencies returns the list of exactly the warning
\* "High night-time HVAC consumption detected." if and only if the table has
\* an HVAC column whose sum over rows 0..6 is strictly greater than 10% of its
\* sum over all rows; otherwise it returns the empty list, in particular
\* without an HVAC column or when the HVAC column sums to 0.
C17_NightFlagExactly ==
    warnings.kind # "none"
        => /\ warnings.kind = "list"
           /\ NightShareHigh(df)
                 => warnings.list = <<"High night-time HVAC consumption detected.">>
           /\ ~NightShareHigh(df) => warnings.list = <<>>
           /\ (IndexOf(df.columns, "HVAC") # 0 /\ SumSeq(Column(df, "HVAC")) = 0)
                 => warnings.list = <<>>

\* C17 (amended): the same equivalence for a table that has rows 0..6 or has
\* no HVAC column; an HVAC column holding only zeros is not flagged; with an
\* HVAC column and fewer than 7 rows the call fails.
C17_NightFlagWhenRowsExist ==
    warnings.kind # "none"
        => IF IndexOf(df.columns, "HVAC") # 0 /\ df.nrows < 7
           THEN warnings.kind = "raised"
           ELSE /\ warnings.kind = "list"
                /\ NightShareHigh(df)
                      => warnings.list = <<"High night-time HVAC consumption detected.">>
                /\ ~NightShareHigh(df) => warnings.list = <<>>
                /\ (/\ IndexOf(df.columns, "HVAC") # 0
                    /\ \A i \in 1..df.nrows : Column(df, "HVAC")[i] = 0)
                      => warnings.list = <<>>

C17_Witness ==
    /\ warnings.kind = "list"
    /\ warnings.list = <<>>
    /\ df.nrows = 8
    /\ IndexOf(df.columns, "HVAC") # 0
    /\ NightSum(Column(df, "HVAC")) = 1
    /\ SumSeq(Column(df, "HVAC")) = 10

\* C18: a simulator with timestep_hours = 1 and period_hours = 24 holding one
\* scheduled load that is not randomized, of rating 4, on for steps 6..17,
\* under the label HVAC: run() gives an HVAC column of 12 entries of 4 and 12
\* of 0 and a Total column equal to it at every row; find_peak_load gives
\* (6, "HVAC", 4) and subsystem_share gives {HVAC: 100}.
C18_OneLoadDay ==
    (/\ sim.alive
     /\ sim.timestep_hours = 1
     /\ sim.period_hours = 24
     /\ Len(sim.loads) = 1
     /\ sim.loads[1][2] = "HVAC"
     /\ IsScheduled(sim.loads[1][1])
     /\ sim.loads[1][1].power_kw = 4
     /\ sim.loads[1][1].schedule = DaySchedule
     /\ ~sim.loads[1][1].randomize
     /\ outcome.kind # "none")
        => /\ outcome.kind = "table"
           /\ outcome.columns = <<"HVAC", "Total">>
           /\ outcome.nrows = 24
           /\ Cardinality({ i \in 1..24 : outcome.cells[1][i] = 4 * Tenths }) = 12
           /\ Cardinality({ i \in 1..24 : outcome.cells[1][i] = 0 }) = 12
           /\ \A i \in 1..24 : outcome.cells[2][i] = outcome.cells[1][i]
           /\ (df = RunTable /\ peak.kind # "none")
                 => peak = [kind |-> "ok", hour |-> 6, subsystem |-> "HVAC",
                            value |-> 4 * Tenths]
           /\ (df = RunTable /\ shares.kind # "none")
                 => /\ shares.kind = "series"
                    /\ Len(shares.entries) = 1
                    /\ shares.entries[1].label = "HVAC"
                    /\ shares.entries[1].num = 100 * shares.entries[1].den

C18_Witness ==
    /\ sim.timestep_hours = 1
    /\ sim.period_hours = 24
    /\ sim.loads = << <<ApplianceLoad(4, DaySchedule, FALSE), "HVAC">> >>
    /\ outcome.kind = "table"
    /\ df = RunTable
    /\ peak.kind = "ok"
    /\ peak.hour = 6
    /\ shares.kind = "series"

\* C19: add_load never fails whatever load and label it is given (no length
\* or type validation); it appends exactly one (load, label) pair at the end
\* of the stored list, keeps the pairs stored before and their order, and
\* leaves timestep_hours, period_hours and the timestep count unchanged.
C19_AddLoadAppendsOnly ==
    /\ [](sim.alive /\ Len(sim.loads) < MaxLoads
            => \A l \in Catalog, subsystem \in Labels : ENABLED add_load(l, subsystem))
    /\ [][(sim.alive /\ sim' # sim)
            => /\ sim'.alive
               /\ sim'.timestep_hours = sim.timestep_hours
               /\ sim'.period_hours = sim.period_hours
               /\ sim'.timesteps = sim.timesteps
               /\ Len(sim'.loads) = Len(sim.loads) + 1
               /\ SubSeq(sim'.loads, 1, Len(sim.loads)) = sim.loads
               /\ sim'.loads[Len(sim'.loads)][1] \in Catalog
               /\ sim'.loads[Len(sim'.loads)][2] \in Labels]_vars

C19_Witness ==
    /\ sim.alive
    /\ sim.timesteps = 3
    /\ Len(sim.loads) = 2
    /\ sim.loads[1] = sim.loads[2]
    /\ OutLen(sim.loads[1][1]) = 1
    /\ sim.loads[1][2] = "Total"

\* draws taken by the pairs of ls before the j-th: Len(schedule) for a
\* scheduled load with randomize set, none for any other load
DrawsBefore(ls, j) ==
    SumSeq([k \in 1..(j - 1) |->
              IF ls[k][1].cls \in {"ApplianceLoad", "LightingLoad"} /\ ls[k][1].randomize
              THEN Len(ls[k][1].schedule) ELSE 0])

\* what the j-th pair's load gives at step i when the stream of the run that
\* started at random state r is dealt out in the order of the pairs
ExpectedAt(ls, r, j, i) ==
    LET l == ls[j][1]
    IN  IF l.cls = "HVACLoad" THEN HVACSimulate(l)[i]
        ELSE IF l.randomize
        THEN l.power_kw * l.schedule[i] * Uniform(r.seed, r.pos + DrawsBefore(ls, j) + i - 1)
        ELSE l.power_kw * l.schedule[i] * Tenths

\* C20: run() takes the loads in the order of the add_load calls and the
\* shared random source is consumed in that order: a scheduled load with
\* randomize set takes exactly Len(schedule) consecutive draws (one per step,
\* on or off), any other load takes none, so the draws a load receives are
\* fixed by the randomized loads added before it.
C20_DrawsInInsertionOrder ==
    outcome.kind = "table"
        => LET ls == RanLoads
               r == outcome.start
           IN  /\ outcome.stop = [seed |-> r.seed,
                                  pos |-> r.pos + DrawsBefore(ls, Len(ls) + 1)]
               /\ \A k \in 1..Len(outcome.columns) :
                     outcome.columns[k] # "Total"
                        => \A i \in 1..outcome.nrows :
                              outcome.cells[k][i]
                                = SumSeq([j \in 1..Len(ls) |->
                                     IF ls[j][2] # outcome.columns[k] THEN 0
                                     ELSE ExpectedAt(ls, r, j,
                                            IF OutLen(ls[j][1]) = 1 THEN 1 ELSE i)])

C20_Witness ==
    /\ outcome.kind = "table"
    /\ outcome.nloads = 2
    /\ outcome.nrows = 2
    /\ \A j \in 1..2 : IsScheduled(sim.loads[j][1]) /\ sim.loads[j][1].randomize
    /\ sim.loads[1][2] = "HVAC"
    /\ sim.loads[2][2] = "Solar"
    /\ outcome.stop.pos = outcome.start.pos + 4
    /\ outcome.cells[1] # outcome.cells[2]

\* C21: every table run() returns from a non-empty load set has exactly
\* timestep_count rows, indexed 0, 1, ..., timestep_count - 1 in order (the
\* row of index h is position h + 1 of each column).
C21_TableHasTimestepCountRows ==
    (outcome.kind = "table" /\ outcome.nloads > 0)
        => /\ outcome.nrows = sim.timesteps
           /\ \A k \in 1..Len(outcome.cells) :
                 DOMAIN outcome.cells[k] = 1..sim.timesteps

\* the distinct labels of the pairs ls, in the order of their first pair
RECURSIVE FirstAppearances(_)
FirstAppearances(ls) ==
    IF ls = <<>> THEN <<>>
    ELSE LET front == SubSeq(ls, 1, Len(ls) - 1)
             c == ls[Len(ls)][2]
         IN  IF \E k \in 1..Len(front) : front[k][2] = c
             THEN FirstAppearances(front)
             ELSE Append(FirstAppearances(front), c)

\* C22 as stated: the table run() returns has exactly one column per distinct
\* label passed to add_load, in the order of each label's first add_load
\* call, followed by the Total column as the last column.
C22_LabelColumnsThenTotal ==
    outcome.kind = "table"
        => outcome.columns = Append(FirstAppearances(RanLoads), "Total")

\* C22 (amended): the same when no load is stored under the label "Total";
\* when one is, the label has no column of its own and the Total column
\* stands at the position of that label's first add_load call.
C22_LabelColumnsInFirstCallOrder ==
    outcome.kind = "table"
        => IF \E j \in 1..Len(RanLoads) : RanLoads[j][2] = "Total"
           THEN outcome.columns = FirstAppearances(RanLoads)
           ELSE outcome.columns = Append(FirstAppearances(RanLoads), "Total")

C22_Witness ==
    /\ outcome.kind = "table"
    /\ outcome.nloads = 2
    /\ outcome.columns = <<"Total", "HVAC">>
    /\ outcome.nrows = 3

\* length of the output of the first load stored under the label of pair j
FirstLen(ls, j) ==
    OutLen(ls[CHOOSE k \in 1..j :
                /\ ls[k][2] = ls[j][2]
                /\ \A m \in 1..(k - 1) : ls[m][2] # ls[j][2]][1])

\* aggregating the pairs ls fails: an output can be added neither element by
\* element nor as a single value to the array its label already has, or the
\* arrays of two labels differ in length when the frame is built
AggregationFails(ls) ==
    \/ \E j \in 1..Len(ls) : OutLen(ls[j][1]) \notin {1, FirstLen(ls, j)}
    \/ \E j, k \in 1..Len(ls) : FirstLen(ls, j) # FirstLen(ls, k)

\* C23: if producing or aggregating any load fails during run(), run()
\* returns no table at all: no caller receives a table that aggregates only
\* the loads processed before the failure.
C23_NoPartialTable ==
    (outcome.kind # "none" /\ AggregationFails(RanLoads))
        => /\ outcome.kind = "raised"
           /\ outcome.columns = <<>>
           /\ outcome.cells = <<>>
           /\ outcome.nrows = 0

C23_Witness ==
    /\ outcome.kind = "raised"
    /\ outcome.nloads = 2
    /\ sim.loads[1][2] = sim.loads[2][2]
    /\ OutLen(sim.loads[1][1]) = 3
    /\ OutLen(sim.loads[2][1]) = 2

\* C24: a thermal load's simulate() is deterministic and free of side
\* effects: it takes no draw from the shared random source, leaves the load's
\* input series, setpoint, max_power and alpha as they were, and a second
\* call returns what the first returned.
C24_ThermalSimulateIsPure ==
    [][load.cls = "HVACLoad"
         => /\ rng' = rng
            /\ load' = load
            /\ profile'.called
            /\ profile'.out = HVACSimulate(load)
            /\ profile.called => profile'.out = profile.out]_vars

C24_Witness ==
    /\ profile.called
    /\ load.cls = "HVACLoad"
    /\ load.max_power = 4
    /\ load.alpha = 5
    /\ load.temperature_profile = <<29, 14>>
    /\ profile.out = <<40, 0>>
    /\ rng.pos = 0

Unflagged(l) == [l EXCEPT !.randomize = FALSE]

\* the cell of column c at row i of the table of call a (c is a column of it)
CellOf(a, c, i) == a.cells[IndexOf(a.columns, c)][i]

\* C26: in run_simulation every draw that shapes temperatures and schedules
\* is made before sim.run() makes its first noise draw; so for the same
\* timestep_hours and period_hours the calls with randomize true and false
\* build the same schedules and the same HVAC column, and their tables differ
\* only by the noise factor, between 0.9 and 1.1 per step, on what the
\* scheduled loads contribute.
C26_RandomizeOnlyAddsNoise ==
    (/\ app.last.kind # "none"
     /\ app.before.kind # "none"
     /\ app.last.timestep_hours = app.before.timestep_hours
     /\ app.last.period_hours = app.before.period_hours
     /\ app.last.randomize
     /\ ~app.before.randomize)
        => LET R == app.last
               P == app.before
           IN  /\ R.start = P.start
               /\ Len(R.loads) = Len(P.loads)
               /\ \A j \in 1..Len(R.loads) :
                     /\ R.loads[j][2] = P.loads[j][2]
                     /\ Unflagged(R.loads[j][1]) = Unflagged(P.loads[j][1])
                     /\ IsScheduled(R.loads[j][1]) => R.loads[j][1].randomize
               /\ R.kind = "table"
               /\ P.kind = "table"
               /\ R.columns = P.columns
               /\ R.nrows = P.nrows
               /\ \A i \in 1..R.nrows : CellOf(R, "HVAC", i) = CellOf(P, "HVAC", i)
               /\ \A k \in 1..Len(R.columns) :
                     R.columns[k] \notin {"HVAC", "Total"}
                        => \A i \in 1..R.nrows :
                              /\ UniformLow * P.cells[k][i] <= Tenths * R.cells[k][i]
                              /\ Tenths * R.cells[k][i] <= UniformHigh * P.cells[k][i]
                              /\ R.cells[k][i]
                                   = SumSeq([j \in 1..Len(R.loads) |->
                                        IF R.loads[j][2] # R.columns[k] THEN 0
                                        ELSE ExpectedAt(R.loads, R.start, j, i)])

C26_Witness ==
    /\ app.last.kind = "table"
    /\ app.before.kind = "table"
    /\ app.last.randomize
    /\ ~app.before.randomize
    /\ app.last.timestep_hours = 1
    /\ app.before.timestep_hours = 1
    /\ app.last.period_hours = 96
    /\ app.before.period_hours = 96
    /\ app.last.start.pos > 0
    /\ app.last.nrows = 96
    /\ app.last.cells # app.before.cells

\* C27: flag_inefficiencies with the default night_hours (rows 0..6) on a
\* table that has an HVAC column and fewer than 7 rows fails with a
\* missing-row error and returns no list; on a table without an HVAC column
\* it returns the empty list whatever the row count, zero rows included.
C27_ShortTableRaises ==
    warnings.kind # "none"
        => /\ (IndexOf(df.columns, "HVAC") # 0 /\ df.nrows < 7)
                 => warnings.kind = "raised"
           /\ IndexOf(df.columns, "HVAC") = 0
                 => (warnings.kind = "list" /\ warnings.list = <<>>)

C27_Witness ==
    /\ warnings.kind = "raised"
    /\ df.nrows = 6
    /\ df.columns = <<"HVAC", "Total">>
    /\ SumSeq(Column(df, "HVAC")) = 9

\* what the j-th pair adds to row i of its label's array: its output's own
\* element, or its only element when the output has length one
AddedAt(ls, r, j, i) ==
    LET out == OutputOf(ls, r, j)
    IN  IF Len(out) = 1 THEN out[1] ELSE out[i]

\* C28: with a load stored under the label "Total", run() fails no more than
\* with any other label (only when the outputs cannot be aggregated); the
\* table has a single column named Total and no further column for that
\* label, and each Total cell is the sum of what every pair added to the row,
\* the pairs labelled "Total" included, each counted once.
C28_TotalLabelOverwritten ==
    (outcome.kind # "none" /\ \E j \in 1..Len(RanLoads) : RanLoads[j][2] = "Total")
        => /\ outcome.kind = "table" <=> ~AggregationFails(RanLoads)
           /\ outcome.kind = "table"
                 => /\ Cardinality({ k \in 1..Len(outcome.columns) :
                                        outcome.columns[k] = "Total" }) = 1
                    /\ Len(outcome.columns)
                          = Cardinality({ RanLoads[j][2] : j \in 1..Len(RanLoads) })
                    /\ \A i \in 1..outcome.nrows :
                          Column(outcome, "Total")[i] =
                              SumSeq([j \in 1..Len(RanLoads) |->
                                         AddedAt(RanLoads, outcome.start, j, i)])

C28_Witness ==
    /\ outcome.kind = "table"
    /\ outcome.nloads = 2
    /\ sim.loads[1][2] = "HVAC"
    /\ sim.loads[2][2] = "Total"
    /\ outcome.columns = <<"HVAC", "Total">>
    /\ outcome.nrows = 2
    /\ \A i \in 1..2 : /\ Column(outcome, "HVAC")[i] > 0
                       /\ AccumulatedAsTotal(RanLoads, outcome.start, i) > 0
                       /\ Column(outcome, "Total")[i] =
                             Column(outcome, "HVAC")[i]
                             + AccumulatedAsTotal(RanLoads, outcome.start, i)

===========================================================================
